---- MODULE Spec2Model ----
(***************************************************************************)
(* Model of scripts/verify_cross_contract_invariants.py:                   *)
(* SplitConfig / RemittanceSplitter / ContractTracker and the drivers      *)
(* (the test_* functions) that feed split results to a tracker.            *)
(*                                                                         *)
(* Three specifications share the variables:                               *)
(*   Spec       a driver that constructs one splitter and then calls       *)
(*              calculate_split / allocate in any order, small amounts;    *)
(*   SpecSplit  calculate_split as a pure function over a wide range of    *)
(*              configurations and amounts;                                *)
(*   SpecHV     test_high_volume's loop at the amounts of the script       *)
(*              (about 10^11), which exceed the 32-bit integers of the     *)
(*              model checker and are carried as two-limb numbers.         *)
(***************************************************************************)
EXTENDS Integers, Sequences, FiniteSets

VARIABLES
    splitter,        \* RemittanceSplitter.config, or None before construction
    tracker,         \* ContractTracker: the four running totals
    result,          \* the driver's `result`: last AllocationResult, or None
    pending,         \* TRUE while `result` has not been handed to allocate
    total_remitted,  \* the driver's total_remitted
    remittances,     \* the amounts fed to the tracker so far, in order
    i,               \* number of completed loop iterations (allocate calls)
    last,            \* the last call made: [op, arg, raised]
    scenario         \* which driver runs: "free" or "high_volume"

vars == <<splitter, tracker, result, pending, total_remitted, remittances, i,
          last, scenario>>

\* Python's None
None == [none |-> TRUE]

----------------------------------------------------------------------------
(* Bounds of the model *)

\* longest sequence of allocate calls explored under Spec
MaxCalls == 3

\* largest amount handed to calculate_split under SpecSplit
MaxAmount == 200

----------------------------------------------------------------------------
(* SplitConfig *)

Config(sp, sv, bl, ins) ==
    [spending_percent |-> sp, savings_percent |-> sv,
     bills_percent |-> bl, insurance_percent |-> ins]

\* mutant: accepts any sum up to 100
validate_at_most(config) ==
    LET total == config.spending_percent + config.savings_percent
                 + config.bills_percent + config.insurance_percent
    IN  total <= 100

validate(config) ==
    LET total == config.spending_percent + config.savings_percent
                 + config.bills_percent + config.insurance_percent
    IN  total = 100

----------------------------------------------------------------------------
(* AllocationResult *)

sum_allocations(r) == r.spending + r.savings + r.bills + r.insurance

is_consistent(r) == sum_allocations(r) = r.total

----------------------------------------------------------------------------
(* RemittanceSplitter.  A call that raises yields the value ValueError. *)

ValueError == [raised |-> "ValueError"]

\* __init__: the splitter holding config, or ValueError
NewRemittanceSplitter(config) ==
    IF ~validate(config) THEN ValueError ELSE config

\* mutant: insurance is truncated like the others, the remainder is lost
calculate_split_no_remainder(config, total_amount) ==
    IF total_amount <= 0 THEN ValueError
    ELSE [total     |-> total_amount,
          spending  |-> (total_amount * config.spending_percent) \div 100,
          savings   |-> (total_amount * config.savings_percent) \div 100,
          bills     |-> (total_amount * config.bills_percent) \div 100,
          insurance |-> (total_amount * config.insurance_percent) \div 100]

\* mutant: the three shares are rounded up instead of truncated
calculate_split_round_up(config, total_amount) ==
    IF total_amount <= 0 THEN ValueError
    ELSE LET spending == (total_amount * config.spending_percent + 99) \div 100
             savings  == (total_amount * config.savings_percent + 99) \div 100
             bills    == (total_amount * config.bills_percent + 99) \div 100
             insurance == total_amount - spending - savings - bills
         IN  [total |-> total_amount, spending |-> spending,
              savings |-> savings, bills |-> bills, insurance |-> insurance]

\* mutant: the remainder leaves out the bills share
calculate_split_forgets_bills(config, total_amount) ==
    IF total_amount <= 0 THEN ValueError
    ELSE LET spending == (total_amount * config.spending_percent) \div 100
             savings  == (total_amount * config.savings_percent) \div 100
             bills    == (total_amount * config.bills_percent) \div 100
             insurance == total_amount - spending - savings
         IN  [total |-> total_amount, spending |-> spending,
              savings |-> savings, bills |-> bills, insurance |-> insurance]

\* mutant: only negative amounts are rejected
calculate_split_accepts_zero(config, total_amount) ==
    IF total_amount < 0 THEN ValueError
    ELSE LET spending == (total_amount * config.spending_percent) \div 100
             savings  == (total_amount * config.savings_percent) \div 100
             bills    == (total_amount * config.bills_percent) \div 100
             insurance == total_amount - spending - savings - bills
         IN  [total |-> total_amount, spending |-> spending,
              savings |-> savings, bills |-> bills, insurance |-> insurance]

\* mutant: savings is computed from bills_percent
calculate_split_wrong_percent(config, total_amount) ==
    IF total_amount <= 0 THEN ValueError
    ELSE LET spending == (total_amount * config.spending_percent) \div 100
             savings  == (total_amount * config.bills_percent) \div 100
             bills    == (total_amount * config.bills_percent) \div 100
             insurance == total_amount - spending - savings - bills
         IN  [total |-> total_amount, spending |-> spending,
              savings |-> savings, bills |-> bills, insurance |-> insurance]

calculate_split(config, total_amount) ==
    IF total_amount <= 0 THEN ValueError
    ELSE LET spending == (total_amount * config.spending_percent) \div 100
             savings  == (total_amount * config.savings_percent) \div 100
             bills    == (total_amount * config.bills_percent) \div 100
             \* remainder to insurance
             insurance == total_amount - spending - savings - bills
         IN  [total |-> total_amount, spending |-> spending,
              savings |-> savings, bills |-> bills, insurance |-> insurance]

----------------------------------------------------------------------------
(* ContractTracker *)

NewContractTracker ==
    [savings_total |-> 0, bills_total |-> 0,
     insurance_total |-> 0, spending_total |-> 0]

\* mutant: insurance is never recorded
allocate_drops_insurance(t, r) ==
    [spending_total  |-> t.spending_total + r.spending,
     savings_total   |-> t.savings_total + r.savings,
     bills_total     |-> t.bills_total + r.bills,
     insurance_total |-> t.insurance_total]

\* mutant: savings_total is assigned instead of incremented
allocate_overwrites_savings(t, r) ==
    [spending_total  |-> t.spending_total + r.spending,
     savings_total   |-> r.savings,
     bills_total     |-> t.bills_total + r.bills,
     insurance_total |-> t.insurance_total + r.insurance]

allocate(t, r) ==
    [spending_total  |-> t.spending_total + r.spending,
     savings_total   |-> t.savings_total + r.savings,
     bills_total     |-> t.bills_total + r.bills,
     insurance_total |-> t.insurance_total + r.insurance]

get_total_allocated(t) ==
    t.spending_total + t.savings_total + t.bills_total + t.insurance_total

get_tracked_total(t) ==
    t.savings_total + t.bills_total + t.insurance_total

----------------------------------------------------------------------------
(* Inputs of the driver under Spec *)

\* the configuration every test of the script uses
TestConfig == Config(40, 30, 20, 10)

Configs ==
    { TestConfig, Config(25, 25, 25, 25), Config(0, 0, 0, 100),
      Config(100, 0, 0, 0), Config(33, 33, 33, 1), Config(1, 1, 1, 97),
      Config(50, 50, 0, 0),
      Config(40, 30, 20, 9), Config(40, 30, 20, 11),
      Config(0, 0, 0, 0), Config(50, 50, 50, 50) }

Amounts == { -1, 0, 1, 3, 99, 100, 109, 250 }

----------------------------------------------------------------------------
(* The driver *)

Init ==
    /\ splitter = None
    /\ tracker = NewContractTracker
    /\ result = None
    /\ pending = FALSE
    /\ total_remitted = 0
    /\ remittances = << >>
    /\ i = 0
    /\ last = [op |-> "init", arg |-> None, raised |-> FALSE]
    /\ scenario = "free"

\* splitter = RemittanceSplitter(config)
Construct(config) ==
    /\ splitter = None
    /\ LET s == NewRemittanceSplitter(config)
       IN  /\ splitter' = IF s = ValueError THEN splitter ELSE s
           /\ last' = [op |-> "new", arg |-> config, raised |-> s = ValueError]
    /\ UNCHANGED <<tracker, result, pending, total_remitted, remittances, i,
                   scenario>>

\* result = splitter.calculate_split(amount)
CalculateSplit(amount) ==
    /\ splitter # None
    /\ LET r == calculate_split(splitter, amount)
       IN  /\ result' = IF r = ValueError THEN result ELSE r
           /\ pending' = IF r = ValueError THEN pending ELSE TRUE
           /\ last' = [op |-> "split", arg |-> amount, raised |-> r = ValueError]
    /\ UNCHANGED <<splitter, tracker, total_remitted, remittances, i, scenario>>

\* tracker.allocate(result); total_remitted += amount
Allocate ==
    /\ pending
    /\ i < MaxCalls
    /\ tracker' = allocate(tracker, result)
    /\ total_remitted' = total_remitted + result.total
    /\ remittances' = Append(remittances, result.total)
    /\ i' = i + 1
    /\ pending' = FALSE
    /\ last' = [op |-> "allocate", arg |-> result, raised |-> FALSE]
    /\ UNCHANGED <<splitter, result, scenario>>

Next ==
    \/ \E config \in Configs : Construct(config)
    \/ \E amount \in Amounts : CalculateSplit(amount)
    \/ Allocate

Spec == Init /\ [][Next]_vars

----------------------------------------------------------------------------
(* calculate_split alone: every valid configuration over Percents, every  *)
(* amount up to MaxAmount (two full periods of the remainders modulo 100). *)

Percents ==
    { 0, 1, 3, 5, 7, 10, 15, 20, 25, 30, 33, 34, 40, 45, 50, 60, 90, 97, 99, 100 }

ValidConfigs ==
    { c \in [spending_percent : Percents, savings_percent : Percents,
             bills_percent : Percents, insurance_percent : Percents] :
        validate(c) }

InitSplit ==
    /\ splitter \in ValidConfigs
    /\ tracker = NewContractTracker
    /\ result = None
    /\ pending = FALSE
    /\ total_remitted = 0
    /\ remittances = << >>
    /\ i = 0
    /\ last = [op |-> "new", arg |-> splitter, raised |-> FALSE]
    /\ scenario = "free"

\* one application per behaviour (a call that raised may be followed by another)
NextSplit ==
    /\ result = None
    /\ \E amount \in -1 .. MaxAmount : CalculateSplit(amount)

SpecSplit == InitSplit /\ [][NextSplit]_vars

----------------------------------------------------------------------------
(* Python integers beyond 2^31.  The amounts of the script are of the order *)
(* of 10^11 (XLM with 7 decimals); such an integer v is carried as         *)
(* [hi, lo] with v = hi * LIMB + lo and 0 <= lo < LIMB (hi may be          *)
(* negative), and the operators below are Python's on that representation. *)

\* 10^7: one XLM in its smallest unit
LIMB == 10000000

Wide(hi, lo) == [hi |-> hi, lo |-> lo]

\* a + b
WideAdd(a, b) ==
    LET s == a.lo + b.lo
    IN  Wide(a.hi + b.hi + (s \div LIMB), s % LIMB)

\* a - b
WideSub(a, b) ==
    LET d == a.lo - b.lo
    IN  Wide(a.hi - b.hi + (d \div LIMB), d % LIMB)

\* a * p, for an ordinary integer 0 <= p <= 100
WideMul(a, p) ==
    LET prod == a.lo * p
    IN  Wide(a.hi * p + (prod \div LIMB), prod % LIMB)

\* a // 100
WideFloorDiv100(a) ==
    LET r == a.hi % 100
    IN  Wide(a.hi \div 100, (r * LIMB + a.lo) \div 100)

\* a <= b
WideLeq(a, b) == a.hi < b.hi \/ (a.hi = b.hi /\ a.lo <= b.lo)

\* abs(a)
WideAbs(a) == IF a.hi < 0 THEN WideSub(Wide(0, 0), a) ELSE a

\* mutant: spending is computed from savings_percent
calculate_split_wide_wrong_percent(config, total_amount) ==
    IF WideLeq(total_amount, Wide(0, 0)) THEN ValueError
    ELSE LET spending ==
                 WideFloorDiv100(WideMul(total_amount, config.savings_percent))
             savings ==
                 WideFloorDiv100(WideMul(total_amount, config.savings_percent))
             bills ==
                 WideFloorDiv100(WideMul(total_amount, config.bills_percent))
             insurance ==
                 WideSub(WideSub(WideSub(total_amount, spending), savings), bills)
         IN  [total |-> total_amount, spending |-> spending,
              savings |-> savings, bills |-> bills, insurance |-> insurance]

\* calculate_split on wide integers
calculate_split_wide(config, total_amount) ==
    IF WideLeq(total_amount, Wide(0, 0)) THEN ValueError
    ELSE LET spending ==
                 WideFloorDiv100(WideMul(total_amount, config.spending_percent))
             savings ==
                 WideFloorDiv100(WideMul(total_amount, config.savings_percent))
             bills ==
                 WideFloorDiv100(WideMul(total_amount, config.bills_percent))
             insurance ==
                 WideSub(WideSub(WideSub(total_amount, spending), savings), bills)
         IN  [total |-> total_amount, spending |-> spending,
              savings |-> savings, bills |-> bills, insurance |-> insurance]

\* ContractTracker() on wide integers
NewContractTrackerWide ==
    [savings_total |-> Wide(0, 0), bills_total |-> Wide(0, 0),
     insurance_total |-> Wide(0, 0), spending_total |-> Wide(0, 0)]

\* allocate on wide integers
allocate_wide(t, r) ==
    [spending_total  |-> WideAdd(t.spending_total, r.spending),
     savings_total   |-> WideAdd(t.savings_total, r.savings),
     bills_total     |-> WideAdd(t.bills_total, r.bills),
     insurance_total |-> WideAdd(t.insurance_total, r.insurance)]

\* get_total_allocated on wide integers
get_total_allocated_wide(t) ==
    WideAdd(WideAdd(WideAdd(t.spending_total, t.savings_total), t.bills_total),
            t.insurance_total)

\* get_tracked_total on wide integers
get_tracked_total_wide(t) ==
    WideAdd(WideAdd(t.savings_total, t.bills_total), t.insurance_total)

----------------------------------------------------------------------------
(* test_high_volume *)

num_remittances == 100

\* 5_000_0000000
base_amount == Wide(5000, 0)

\* 100_0000000
amount_step == Wide(100, 0)

\* Amounts of the "free" scenario, all within 5,000 .. 15,000 x 10^7: the
\* smallest amount that loses the most to truncation (2 mod 5), one with
\* carries in every product, and the largest amount of the range.
HVAmounts == { Wide(5000, 2), Wide(9999, 9999999), Wide(15000, 0) }

InitHV ==
    /\ splitter = NewRemittanceSplitter(TestConfig)
    /\ tracker = NewContractTrackerWide
    /\ result = None
    /\ pending = FALSE
    /\ total_remitted = Wide(0, 0)
    /\ remittances = << >>
    /\ i = 0
    /\ last = [op |-> "new", arg |-> TestConfig, raised |-> FALSE]
    /\ scenario \in {"free", "high_volume"}

\* one iteration of the loop: split, allocate, add to total_remitted
HighVolumeStep(amount) ==
    /\ i < num_remittances
    /\ LET r == calculate_split_wide(splitter, amount)
       IN  /\ r # ValueError
           /\ result' = r
           /\ tracker' = allocate_wide(tracker, r)
           /\ last' = [op |-> "allocate", arg |-> r, raised |-> FALSE]
    /\ total_remitted' = WideAdd(total_remitted, amount)
    /\ i' = i + 1
    /\ UNCHANGED <<splitter, pending, remittances, scenario>>

NextHV ==
    \/ /\ scenario = "high_volume"
       /\ HighVolumeStep(WideAdd(base_amount, WideMul(amount_step, i)))
    \/ /\ scenario = "free"
       /\ \E amount \in HVAmounts : HighVolumeStep(amount)

SpecHV == InitHV /\ [][NextHV]_vars

----------------------------------------------------------------------------
(* Properties *)

SplitReturned == last.op = "split" /\ ~last.raised

\* C1: per-call conservation: for a configuration of four non-negative
\* percentages summing to 100 and a positive amount n, calculate_split(n)
\* returns a result whose total is n and whose four allocations are each
\* >= 0 and sum exactly to n (is_consistent() is true).
C1_PerCallConservation ==
    (SplitReturned /\ last.arg > 0) =>
        /\ result.total = last.arg
        /\ result.spending >= 0
        /\ result.savings >= 0
        /\ result.bills >= 0
        /\ result.insurance >= 0
        /\ result.spending + result.savings + result.bills + result.insurance
             = last.arg
        /\ is_consistent(result)

\* a split in which all three truncations lose something and insurance
\* takes it all up
C1_Witness ==
    /\ SplitReturned
    /\ result.spending * 100 < last.arg * splitter.spending_percent
    /\ result.savings * 100 < last.arg * splitter.savings_percent
    /\ result.bills * 100 < last.arg * splitter.bills_percent
    /\ result.insurance * 100 > last.arg * splitter.insurance_percent

\* q is the floor of num / 100
IsFloorOfHundredth(q, num) == q * 100 <= num /\ num < q * 100 + 100

\* C3: the split against its reference: spending, savings and bills are the
\* floors of n*p/100, insurance is n minus the three, so the three truncated
\* buckets never exceed their exact share; when n is a multiple of 100 every
\* bucket is exactly n*p/100.
C3_SplitReference ==
    SplitReturned =>
        LET n == last.arg
            c == splitter
        IN  /\ IsFloorOfHundredth(result.spending, n * c.spending_percent)
            /\ IsFloorOfHundredth(result.savings, n * c.savings_percent)
            /\ IsFloorOfHundredth(result.bills, n * c.bills_percent)
            /\ result.insurance
                 = n - result.spending - result.savings - result.bills
            /\ result.insurance * 100 >= n * c.insurance_percent
            /\ (n % 100 = 0) =>
                 /\ result.spending * 100 = n * c.spending_percent
                 /\ result.savings * 100 = n * c.savings_percent
                 /\ result.bills * 100 = n * c.bills_percent
                 /\ result.insurance * 100 = n * c.insurance_percent

\* the end-to-end scenario of the specification, scaled to n = 200, next to
\* which a non-multiple of 100 leaves its remainder in insurance
C3_Witness ==
    /\ SplitReturned
    /\ splitter = Config(40, 30, 20, 10)
    /\ last.arg = 200
    /\ result = [total |-> 200, spending |-> 80, savings |-> 60,
                 bills |-> 40, insurance |-> 20]

\* C4: residual-bucket bound: insurance exceeds floor(n*insurance_percent/100)
\* by at least 0 and at most 3.
C4_ResidualBound ==
    SplitReturned =>
        LET d == result.insurance
                 - ((last.arg * splitter.insurance_percent) \div 100)
        IN  0 <= d /\ d <= 3

\* the bound is reached: insurance is 3 units above its floor
C4_Witness ==
    /\ SplitReturned
    /\ result.insurance
         - ((last.arg * splitter.insurance_percent) \div 100) = 3

RECURSIVE SumSeq(_)
SumSeq(s) == IF s = << >> THEN 0 ELSE s[1] + SumSeq(Tail(s))

\* C2: cumulative conservation: after every allocate of a split result into
\* a fresh tracker, get_total_allocated() is the sum of the amounts fed so
\* far, in every intermediate state.
C2_CumulativeConservation ==
    /\ get_total_allocated(tracker) = SumSeq(remittances)
    /\ get_total_allocated(tracker) = total_remitted

\* three remittances, at least one of them split with a remainder
C2_Witness ==
    /\ Len(remittances) = 3
    /\ tracker.insurance_total * 100
         > total_remitted * splitter.insurance_percent

\* C5: amount validation: calculate_split(n) raises exactly when n <= 0, and
\* then produces no result and changes neither the splitter's config nor the
\* tracker's totals; n = 1 succeeds with a conserving allocation, which for
\* the configuration (40,30,20,10) is 0 / 0 / 0 / 1.
C5_AmountValidation ==
    /\ [](last.op = "split" =>
            /\ last.raised <=> last.arg <= 0
            /\ (~last.raised /\ last.arg = 1) =>
                  /\ is_consistent(result)
                  /\ result.total = 1
                  /\ splitter = Config(40, 30, 20, 10) =>
                        result = [total |-> 1, spending |-> 0, savings |-> 0,
                                  bills |-> 0, insurance |-> 1])
    /\ [][(last'.op = "split" /\ last'.raised) =>
            /\ result' = result
            /\ pending' = pending
            /\ splitter' = splitter
            /\ tracker' = tracker]_vars

\* a rejected amount after the tracker has accumulated something
C5_Witness ==
    /\ last.op = "split"
    /\ last.raised
    /\ last.arg = 0
    /\ get_total_allocated(tracker) > 0
    /\ pending

PercentSum(c) ==
    c.spending_percent + c.savings_percent + c.bills_percent
    + c.insurance_percent

\* C6: config validation: construction raises, and creates no splitter,
\* whenever the percentages do not sum to 100; it succeeds whenever they
\* do, whatever the individual values (0 included); the config held is
\* never changed afterwards by calculate_split.
C6_ConfigValidation ==
    /\ [](last.op = "new" =>
            /\ last.raised <=> PercentSum(last.arg) # 100
            /\ last.raised => splitter = None
            /\ ~last.raised => splitter = last.arg)
    /\ [][splitter # None => splitter' = splitter]_vars

\* a configuration with zero percentages was accepted and has been used by
\* calculate_split
C6_Witness ==
    /\ splitter = Config(0, 0, 0, 100)
    /\ last.op = "split"
    /\ ~last.raised

\* C7: bucket monotonicity: the tracker starts with four totals of 0, no
\* step decreases any of them, and all four are non-negative in every state.
C7_BucketMonotonicity ==
    /\ tracker.spending_total = 0 /\ tracker.savings_total = 0
    /\ tracker.bills_total = 0 /\ tracker.insurance_total = 0
    /\ [](/\ tracker.spending_total >= 0 /\ tracker.savings_total >= 0
          /\ tracker.bills_total >= 0 /\ tracker.insurance_total >= 0)
    /\ [][/\ tracker'.spending_total >= tracker.spending_total
          /\ tracker'.savings_total >= tracker.savings_total
          /\ tracker'.bills_total >= tracker.bills_total
          /\ tracker'.insurance_total >= tracker.insurance_total]_vars

\* a smaller remittance allocated after a larger one, all four totals grown
C7_Witness ==
    /\ Len(remittances) = 2
    /\ remittances[2] < remittances[1]
    /\ last.op = "allocate"
    /\ tracker.spending_total > 0 /\ tracker.savings_total > 0
    /\ tracker.bills_total > 0 /\ tracker.insurance_total > 0

\* bucket_total * 100 // total_remitted is within 1 of percent
WithinOne(bucket_total, percent) ==
    LET actual == (bucket_total * 100) \div total_remitted
    IN  actual - percent <= 1 /\ percent - actual <= 1

PercentagesMaintained ==
    /\ WithinOne(tracker.spending_total, splitter.spending_percent)
    /\ WithinOne(tracker.savings_total, splitter.savings_percent)
    /\ WithinOne(tracker.bills_total, splitter.bills_percent)
    /\ WithinOne(tracker.insurance_total, splitter.insurance_percent)

\* C9 as stated: with the configuration (40,30,20,10), after any non-empty
\* sequence of splits of positive amounts fed to a fresh tracker, every
\* bucket's realized percentage is within 1 of its configured percentage.
C9_AsStated ==
    (i >= 1 /\ splitter = Config(40, 30, 20, 10)) => PercentagesMaintained

\* C9: per-bucket percentage tolerance, amended: the same, provided every
\* amount fed is at least 100.
C9_PercentageTolerance ==
    (/\ i >= 1
     /\ splitter = Config(40, 30, 20, 10)
     /\ \A k \in 1 .. Len(remittances) : remittances[k] >= 100)
        => PercentagesMaintained

\* three remittances of at least 100 whose realized insurance percentage is
\* 11, not the configured 10
C9_Witness ==
    /\ i = 3
    /\ splitter = Config(40, 30, 20, 10)
    /\ \A k \in 1 .. Len(remittances) : remittances[k] >= 100
    /\ (tracker.insurance_total * 100) \div total_remitted = 11

\* C10: cumulative bias bound: after k >= 1 splits fed to a fresh tracker the
\* tracked total is at least floor(total_remitted * tracked_pct / 100) and
\* exceeds it by at most k; the spending total never exceeds
\* total_remitted * spending_percent / 100.
C10_CumulativeBias ==
    (i >= 1 /\ splitter # None) =>
        LET tracked_pct == splitter.savings_percent + splitter.bills_percent
                           + splitter.insurance_percent
            expected_tracked == (total_remitted * tracked_pct) \div 100
            d == get_tracked_total(tracker) - expected_tracked
        IN  /\ 0 <= d
            /\ d <= i
            /\ tracker.spending_total * 100
                 <= total_remitted * splitter.spending_percent

\* the upper bound is reached: three calls, three units above the floor
C10_Witness ==
    /\ i = 3
    /\ splitter # None
    /\ LET tracked_pct == splitter.savings_percent + splitter.bills_percent
                          + splitter.insurance_percent
       IN  get_tracked_total(tracker)
             - ((total_remitted * tracked_pct) \div 100) = 3

\* abs(actual_tracked - expected_tracked) of test_high_volume
HVDifference ==
    LET tracked_pct == splitter.savings_percent + splitter.bills_percent
                       + splitter.insurance_percent
        expected_tracked == WideFloorDiv100(WideMul(total_remitted, tracked_pct))
        actual_tracked == get_tracked_total_wide(tracker)
    IN  WideAbs(WideSub(actual_tracked, expected_tracked))

\* total_remitted // 10000
HVTolerance == WideFloorDiv100(WideFloorDiv100(total_remitted))

\* C8: aggregate tracked-percentage tolerance: with the configuration
\* (40,30,20,10) and amounts between 5,000 and 15,000 x 10^7 fed to a fresh
\* tracker (up to the 100 calls of the test), the tracked total differs from
\* floor(total_remitted * 60 / 100) by at most floor(total_remitted / 10000).
C8_TrackedTolerance ==
    i >= 1 => WideLeq(HVDifference, HVTolerance)

\* all 100 calls made, with amounts that truncate: the tracked total is
\* above its expected value
C8_Witness ==
    /\ i = num_remittances
    /\ scenario = "free"
    /\ ~WideLeq(HVDifference, Wide(0, 50))

====
